---- MODULE Spec2Model ----
(***************************************************************************)
(* Pipe-flow hydraulics (app/core/pipe_calc.py) and its two front ends     *)
(* (app/cli.py, app/streamlit_app.py).                                     *)
(*                                                                         *)
(* Numbers.  The program computes with Python floats.  A float is modelled *)
(* as a decimal floating-point number [m |-> mantissa, e |-> exponent] of  *)
(* value m * 10^e, with m = 0 or 10^7 <= |m| < 10^8 (eight significant     *)
(* digits, results truncated towards zero).  Like a float, and unlike a    *)
(* fixed-point number, it keeps its relative precision from 1e-6 (the      *)
(* solver's tolerance) up to 1e6 (Reynolds numbers, pressures).  None is   *)
(* the record [none |-> TRUE].  Infinities and NaN are not modelled:       *)
(* every input is a finite number or None.                                 *)
(*                                                                         *)
(* Outcomes.  A call either returns a value or raises; its outcome is a    *)
(* record [kind |-> "ok" | "ValueError" | "ZeroDivisionError", val |-> v]. *)
(*                                                                         *)
(* The arithmetic is written as functions, which take their arguments by   *)
(* value, the way Python evaluates a call.                                 *)
(***************************************************************************)
EXTENDS Integers, Sequences, FiniteSets, TLC

(***************************************************************************)
(* Decimal floating point                                                  *)
(***************************************************************************)
None == [none |-> TRUE]

Zero == [m |-> 0, e |-> 0]

\* the floats: m * 10^e
Flt == [m : Int, e : Int]

Ok(v) == [kind |-> "ok", val |-> v]

Raise(k) == [kind |-> k, val |-> None]

Abs(n) == IF n < 0 THEN -n ELSE n

Sgn(n) == IF n < 0 THEN -1 ELSE IF n = 0 THEN 0 ELSE 1

\* n / p truncated towards zero
Trunc(n, p) == Sgn(n) * (Abs(n) \div p)

\* 10^k for 0 <= k <= 9
Pow10(k) ==
    <<1, 10, 100, 1000, 10000, 100000, 1000000, 10000000, 100000000,
      1000000000>>[k + 1]

\* the number of decimal digits of n, 1 <= n < 2^31
Digits[n \in Nat] ==
    IF n >= 1000000000 THEN 10
    ELSE CHOOSE k \in 1 .. 9 : Pow10(k - 1) <= n /\ n < Pow10(k)

\* m * 10^e, m of d digits, with eight digits
Shift[m \in Int, e \in Int, d \in 1 .. 10] ==
    IF d > 8
    THEN [m |-> Trunc(m, Pow10(d - 8)), e |-> e + (d - 8)]
    ELSE [m |-> m * Pow10(8 - d), e |-> e - (8 - d)]

\* the normal form of m * 10^e, for |m| < 2^31
Norm[m \in Int, e \in Int] ==
    IF m = 0 THEN Zero ELSE Shift[m, e, Digits[Abs(m)]]

\* the literal m * 10^e, e.g. Dec(574, -2) for 5.74
Dec(m, e) == Norm[m, e]

Neg(a) == [m |-> -(a.m), e |-> a.e]

FAbs(a) == [m |-> Abs(a.m), e |-> a.e]

\* hi + lo for hi.e >= lo.e, computed with one guard digit
AddOrdered[hi \in Flt, lo \in Flt] ==
    IF hi.e - lo.e >= 10 THEN hi
    ELSE IF hi.e = lo.e THEN Norm[hi.m + lo.m, hi.e]
    ELSE Norm[hi.m * 10 + Trunc(lo.m, Pow10(hi.e - lo.e - 1)), hi.e - 1]

Add[a \in Flt, b \in Flt] ==
    IF a.m = 0 THEN b
    ELSE IF b.m = 0 THEN a
    ELSE IF a.e >= b.e THEN AddOrdered[a, b] ELSE AddOrdered[b, a]

Sub[a \in Flt, b \in Flt] == Add[a, Neg(b)]

\* the order of two numbers is the sign of their difference
Lt(a, b) == Sub[a, b].m < 0

Le(a, b) == Sub[a, b].m <= 0

\* floor((x1 * 10^4 + x0) * (y1 * 10^4 + y0) / 10^7), in 32-bit steps
MulHi[x1 \in Nat, x0 \in Nat, y1 \in Nat, y0 \in Nat] ==
    x1 * y1 * 10 + ((x1 * y0 + x0 * y1) + ((x0 * y0) \div 10000)) \div 1000

Mul[a \in Flt, b \in Flt] ==
    IF a.m = 0 \/ b.m = 0 THEN Zero
    ELSE Norm[Sgn(a.m) * Sgn(b.m)
                  * MulHi[Abs(a.m) \div 10000, Abs(a.m) % 10000,
                          Abs(b.m) \div 10000, Abs(b.m) % 10000],
              a.e + b.e + 7]

Sq[a \in Flt] == Mul[a, a]

\* long division: the first k digits of r / y after the point, 0 <= r < y
DivDigits[r \in Nat, y \in Nat, k \in Nat] ==
    IF k = 0 THEN 0
    ELSE ((r * 10) \div y) * Pow10(k - 1) + DivDigits[(r * 10) % y, y, k - 1]

\* a / b for b # 0 (the caller raises ZeroDivisionError when b = 0)
Div[a \in Flt, b \in Flt] ==
    IF a.m = 0 THEN Zero
    ELSE Norm[Sgn(a.m) * Sgn(b.m)
                  * ((Abs(a.m) \div Abs(b.m)) * Pow10(8)
                     + DivDigits[Abs(a.m) % Abs(b.m), Abs(b.m), 8]),
              a.e - b.e - 8]

\* k steps of Newton's iteration x <- (x + a/x)/2
SqrtNewton[a \in Flt, x \in Flt, k \in Nat] ==
    IF k = 0 THEN x
    ELSE SqrtNewton[a, Mul[Dec(5, -1), Add[x, Div[a, x]]], k - 1]

\* math.sqrt(a) for a >= 0 (the caller raises ValueError when a < 0)
Sqrt[a \in Flt] ==
    IF a.m = 0 THEN Zero
    ELSE SqrtNewton[a, Dec(1, ((IF a.e % 2 = 0 THEN a.e ELSE a.e - 1) + 8) \div 2), 8]

\* the first k binary digits of log10(x) for 1 <= x < 10, by repeated
\* squaring, from sq = x^2: the numerator of the fraction over 2^k
LogBits[sq \in Flt, k \in Nat] ==
    IF k = 0 THEN 0
    ELSE IF sq.e > -7
    THEN 2 ^ (k - 1) + LogBits[Sq[[m |-> sq.m, e |-> -7]], k - 1]
    ELSE LogBits[Sq[sq], k - 1]

\* math.log10(a) for a > 0 (the caller raises ValueError when a <= 0)
Log10[a \in Flt] ==
    Add[Dec(a.e + 7, 0),
        Div[Dec(LogBits[Sq[[m |-> a.m, e |-> -7]], 26], 0), Dec(2 ^ 26, 0)]]

\* floor of a number of small magnitude
Floor[a \in Flt] ==
    IF a.e >= 0 THEN a.m * Pow10(a.e)
    ELSE IF a.e < -8 THEN (IF a.m < 0 THEN -1 ELSE 0)
    ELSE IF a.m < 0 /\ Trunc(a.m, Pow10(-(a.e))) * Pow10(-(a.e)) # a.m
    THEN Trunc(a.m, Pow10(-(a.e))) - 1
    ELSE Trunc(a.m, Pow10(-(a.e)))

\* the series sum of z^j / j! for j >= n, t = z^n / n!
ExpSeries[z \in Flt, n \in Nat, t \in Flt] ==
    IF t.m = 0 \/ t.e < -18 THEN Zero
    ELSE Add[t, ExpSeries[z, n + 1, Div[Mul[t, z], Dec(n + 1, 0)]]]

\* e^z for 0 <= z < 0.3
ExpSmall[z \in Flt] == Add[Dec(1, 0), ExpSeries[z, 1, z]]

\* e^z for 0 <= z < 2.4: e^(z/8), squared three times
Exp[z \in Flt] == Sq[Sq[Sq[ExpSmall[Div[z, Dec(8, 0)]]]]]

\* s * 10^n
Scale10[s \in Flt, n \in Int] == [m |-> s.m, e |-> s.e + n]

\* 10^(n + r) for 0 <= r < 1
Exp10Parts[n \in Int, r \in Flt] == Scale10[Exp[Mul[r, Dec(23025851, -7)]], n]

\* 10^y
Exp10[y \in Flt] == Exp10Parts[Floor[y], Sub[y, Dec(Floor[y], 0)]]

\* a ** p for a > 0
Pow[a \in Flt, p \in Flt] == Exp10[Mul[p, Log10[a]]]

\* Python's a / b: ZeroDivisionError when b is zero
Quot[a \in Flt, b \in Flt] ==
    IF b.m = 0 THEN Raise("ZeroDivisionError") ELSE Ok(Div[a, b])

(***************************************************************************)
(* app/core/pipe_calc.py                                                   *)
(***************************************************************************)
\* what a call returns or raises
Outcome ==
    [kind : {"ok", "ValueError", "ZeroDivisionError"}, val : Flt \cup {None}]

\* g = 9.80665
g == Dec(980665, -5)

\* math.pi
Pi == Dec(31415926, -7)

\* the default arguments f0=0.02, max_iter=50, tol=1e-6 of friction_factor_colebrook
DefaultF0 == Dec(2, -2)

DefaultMaxIter == 50

DefaultTol == Dec(1, -6)

\* the default argument eps_rel=1e-5 of analyze_pipe_flow
DefaultEps == Dec(1, -5)

\* the laminar limit in friction_factor
LaminarLimit == Dec(2300, 0)

\* reynolds_number(rho, V, D, mu, nu)
ReynoldsNumber(rho, V, D, mu, nu) ==
    IF nu = None
    THEN IF mu = None THEN Raise("ValueError")
         ELSE IF rho.m = 0 THEN Raise("ZeroDivisionError")
         ELSE Quot[Mul[V, D], Div[mu, rho]]
    ELSE Quot[Mul[V, D], nu]

\* friction_factor_laminar(Re)
FrictionFactorLaminar(Re) == Quot[Dec(64, 0), Re]

\* a guard that lets Re = 0 through
NotPositiveStrict(Re) == Lt(Re, Zero)

\* the test "Re <= 0" that guards the three friction-factor functions
NotPositive(Re) == Le(Re, Zero)

\* Swamee-Jain with the square left out: 0.25 / math.log10(s)
SwameeJainOfSumUnsquared[s \in Flt] ==
    IF Le(s, Zero) THEN Raise("ValueError")
    ELSE Quot[Dec(25, -2), Log10[s]]

FrictionFactorSwameeJainUnsquared(Re, eps_rel, D) ==
    IF Le(Re, Zero) THEN Raise("ValueError")
    ELSE IF D.m = 0 THEN Raise("ZeroDivisionError")
    ELSE SwameeJainOfSumUnsquared[Add[Div[Div[eps_rel, D], Dec(37, -1)],
                                      Div[Dec(574, -2), Pow[Re, Dec(9, -1)]]]]

\* 0.25 / (math.log10(s) ** 2) for s = A + B
SwameeJainOfSum[s \in Flt] ==
    IF Le(s, Zero) THEN Raise("ValueError")
    ELSE Quot[Dec(25, -2), Sq[Log10[s]]]

\* friction_factor_swamee_jain(Re, eps_rel, D)
FrictionFactorSwameeJain(Re, eps_rel, D) ==
    IF NotPositive(Re) THEN Raise("ValueError")
    ELSE IF D.m = 0 THEN Raise("ZeroDivisionError")
    ELSE SwameeJainOfSum[Add[Div[Div[eps_rel, D], Dec(37, -1)],
                             Div[Dec(574, -2), Pow[Re, Dec(9, -1)]]]]

\* f_new = 1.0 / (rhs ** 2) for rhs = -2.0 * math.log10(arg)
ColebrookOfArg[arg \in Flt] ==
    IF Le(arg, Zero) THEN Raise("ValueError")
    ELSE Quot[Dec(1, 0), Sq[Mul[Dec(-2, 0), Log10[arg]]]]

\* the argument of the logarithm, from A = (eps_rel / D) / 3.7 and
\* den = Re * math.sqrt(f)
ColebrookOfTerms[A \in Flt, den \in Flt] ==
    IF den.m = 0 THEN Raise("ZeroDivisionError")
    ELSE ColebrookOfArg[Add[A, Div[Dec(251, -2), den]]]

\* lines 59-64 of the loop body of friction_factor_colebrook: the proposal
\* f_new from the iterate f, or the exception the lines raise
ColebrookProposal(f, Re, eps_rel, D) ==
    IF Lt(f, Zero) THEN Raise("ValueError")
    ELSE IF f.m = 0 THEN Raise("ZeroDivisionError")
    ELSE IF D.m = 0 THEN Raise("ZeroDivisionError")
    ELSE ColebrookOfTerms[Div[Div[eps_rel, D], Dec(37, -1)], Mul[Re, Sqrt[f]]]

\* an update without damping: f = f_new
Undamped(f, f_new) == f_new

\* the damped update f = 0.5 * (f + f_new)
Damped(f, f_new) == Mul[Dec(5, -1), Add[f, f_new]]

\* lines 65-67: return f_new when it is within tol of f, else go on with the
\* damped iterate; p is the outcome of lines 59-64
ColebrookDecision[p \in Outcome, f \in Flt, tol \in Flt] ==
    IF p.kind # "ok" THEN p
    ELSE IF Lt(FAbs(Sub[p.val, f]), tol)
    THEN [kind |-> "return", val |-> p.val]
    ELSE [kind |-> "continue", val |-> Damped(f, p.val)]

\* one pass of the loop body from the iterate f: "return" with f_new,
\* "continue" with the damped iterate, or the exception the body raises
ColebrookBody(f, Re, eps_rel, D, tol) ==
    ColebrookDecision[ColebrookProposal(f, Re, eps_rel, D), f, tol]

\* a laminar test that takes Re = 2300 for laminar
IsLaminarInclusive(Re) == Le(Re, LaminarLimit)

\* the test "Re < 2300" of friction_factor
IsLaminar(Re) == Lt(Re, LaminarLimit)

\* an accept test without the upper limit: f_sj > 0
AcceptedWithoutUpperLimit(f_sj) == f_sj.kind = "ok" /\ Lt(Zero, f_sj.val)

\* the test "f_sj > 0 and f_sj < 1" on the outcome of the try block
Accepted(f_sj) ==
    f_sj.kind = "ok" /\ Lt(Zero, f_sj.val) /\ Lt(f_sj.val, Dec(1, 0))

\* the call of friction_factor_colebrook that line 88 makes
Fallback == [kind |-> "fallback", val |-> None]

\* lines 81-88: the Swamee-Jain value if accepted, else the fallback; an
\* exception of the try block is swallowed
SwameeJainOrFallback[f_sj \in Outcome] ==
    [out |-> IF Accepted(f_sj) THEN f_sj ELSE Fallback, calls |-> <<"swamee_jain">>]

\* friction_factor(Re, eps_rel, D) up to its last line: the outcome, or the
\* fallback, and the correlations evaluated, in order
FrictionFactor(Re, eps_rel, D) ==
    IF NotPositive(Re) THEN [out |-> Raise("ValueError"), calls |-> <<>>]
    ELSE IF IsLaminar(Re)
    THEN [out |-> FrictionFactorLaminar(Re), calls |-> <<"laminar">>]
    ELSE SwameeJainOrFallback[FrictionFactorSwameeJain(Re, eps_rel, D)]

\* velocity_from_flowrate(Q, D)
VelocityFromFlowrate(Q, D) == Quot[Q, Div[Mul[Pi, Sq[D]], Dec(4, 0)]]

\* head_loss_darcy(f, L, D, V)
HeadLossDarcy(f, L, D, V) ==
    IF D.m = 0 THEN Raise("ZeroDivisionError")
    ELSE Ok(Div[Mul[Mul[f, Div[L, D]], Sq[V]], Mul[Dec(2, 0), g]])

\* minor_loss_head(K_total, V)
MinorLossHead(K_total, V) == Div[Mul[K_total, Sq[V]], Mul[Dec(2, 0), g]]

\* pressure_drop(rho, head_total)
PressureDrop(rho, head_total) == Mul[Mul[rho, g], head_total]

\* a velocity taken over the square D * D instead of the circle
InitialVelocityOverSquare(Q, V, D) ==
    IF Q = None /\ V = None THEN Raise("ValueError")
    ELSE IF V = None THEN Quot[Q, Sq[D]]
    ELSE Ok(V)

\* lines 114-117 of analyze_pipe_flow: the velocity the analysis uses
InitialVelocity(Q, V, D) ==
    IF Q = None /\ V = None THEN Raise("ValueError")
    ELSE IF V = None THEN VelocityFromFlowrate(Q, D)
    ELSE Ok(V)

\* lines 122-134 of analyze_pipe_flow: the dict returned, from the head loss
HeadsFrom[h_f \in Flt, h_minor \in Flt] ==
    [h_f |-> h_f, h_minor |-> h_minor, head_total |-> Add[h_f, h_minor]]

AnalysisResult(a, V, Re, f, h) ==
    [Re |-> Re, f |-> f, V |-> V, h_f |-> h.h_f, h_minor |-> h.h_minor,
     head_total |-> h.head_total, deltaP |-> PressureDrop(a.rho, h.head_total)]

(***************************************************************************)
(* app/fluid/fluid_props.py                                                *)
(***************************************************************************)
\* CoolProp's PropsSI at pressure P and temperature T: density "D" and
\* viscosity "V" of the fluids it knows; it raises ValueError for a fluid it
\* does not know and for a state outside its range (here T <= 0)
PropsSI(prop, P, T, fluid) ==
    IF Le(T, Zero) THEN Raise("ValueError")
    ELSE IF fluid = "Water"
    THEN Ok(IF prop = "D" THEN Dec(99656, -2) ELSE Dec(85383, -8))
    ELSE IF fluid = "Air"
    THEN Ok(IF prop = "D" THEN Dec(11770, -4) ELSE Dec(18537, -9))
    ELSE IF fluid = "Nitrogen"
    THEN Ok(IF prop = "D" THEN Dec(11382, -4) ELSE Dec(17894, -9))
    ELSE Raise("ValueError")

\* properties_PT(fluid, P, T)
PropertiesPT(fluid, P, T) ==
    LET rho == PropsSI("D", P, T, fluid)
        mu  == PropsSI("V", P, T, fluid)
    IN  IF rho.kind # "ok" THEN rho
        ELSE IF mu.kind # "ok" THEN mu
        ELSE IF rho.val.m = 0 THEN Raise("ZeroDivisionError")
        ELSE Ok([rho |-> rho.val, mu |-> mu.val, nu |-> Div[mu.val, rho.val]])

(***************************************************************************)
(* The calls                                                               *)
(*                                                                         *)
(* A behaviour is one run of one entry point, its arguments drawn from the *)
(* sets below: a function of pipe_calc.py, a front end, or the comparison  *)
(* of the two input modes of analyze_pipe_flow.  analyze_pipe_flow and the *)
(* front ends run statement by statement, friction_factor_colebrook one    *)
(* pass of its loop at a time.                                             *)
(***************************************************************************)
VARIABLES
    entry,         \* the entry point run
    args,          \* its arguments
    pc,            \* where the run stands
    result,        \* the outcome of the entry point's call, None before it ends
    calls,         \* friction_factor: the correlations it evaluated, in order
    call,          \* analyze_pipe_flow: its keyword arguments
    loc,           \* analyze_pipe_flow: its locals V, Re and f
    cb,            \* friction_factor_colebrook: its arguments
    f,             \* friction_factor_colebrook: the local f
    i,             \* friction_factor_colebrook: passes of the loop body begun
    first,         \* mode comparison: the outcome of the call with Q
    lookup,        \* front end: "pending", "ok" or "failed"
    props,         \* front end: the dict properties_PT returned
    analyzeCalls,  \* front end: calls of analyze_pipe_flow made
    rendered,      \* front end: the results were printed / written
    exitCode,      \* cli: Exit(n) once the process exited with status n, else None
    message        \* front end: the error reported, "" if none

vars == <<entry, args, pc, result, calls, call, loc, cb, f, i, first, lookup,
          props, analyzeCalls, rendered, exitCode, message>>

\* largest max_iter tried besides the default
MaxIterTested == 3

ReVals ==
    {Dec(-1000, 0), Dec(-5, -1), Zero, Dec(5, -1), Dec(1000, 0),
     Dec(22999999, -4), Dec(2300, 0), Dec(23000001, -4), Dec(4000, 0),
     Dec(1, 5), Dec(1, 6), Dec(1, 8)}

EpsVals == {Dec(-111, -5), Zero, Dec(1, -5), Dec(1, -3), Dec(5, -2), Dec(1, -1)}

DVals == {Zero, Dec(5, -2), Dec(1, 0)}

NoArgs ==
    [Re |-> None, eps_rel |-> None, D |-> None, f0 |-> None, max_iter |-> None,
     tol |-> None, Q |-> None, V |-> None, L |-> None, rho |-> None,
     mu |-> None, nu |-> None, K_total |-> None, mode |-> None,
     fluid |-> None, P |-> None, T |-> None]

NoLocals == [V |-> None, Re |-> None, f |-> None]

FrictionFactorArgs ==
    {[NoArgs EXCEPT !.Re = re, !.eps_rel = eps, !.D = d] :
        re \in ReVals, eps \in EpsVals, d \in DVals}

ColebrookArgs ==
    {[NoArgs EXCEPT !.Re = re, !.eps_rel = eps, !.D = d, !.f0 = f0,
                    !.max_iter = n, !.tol = tol] :
        re \in {Zero, Dec(2300, 0), Dec(1, 6)},
        eps \in {Dec(-111, -5), Zero, Dec(1, -3), Dec(1, -1)},
        d \in {Zero, Dec(5, -2), Dec(1, 0)},
        f0 \in {DefaultF0, Zero},
        n \in (0 .. MaxIterTested) \cup {DefaultMaxIter},
        tol \in {DefaultTol, Dec(1, -2)}}

VelocityArgs ==
    {[NoArgs EXCEPT !.Q = q, !.D = d] :
        q \in {Dec(-1, -2), Zero, Dec(1, -5), Dec(1, -2)},
        d \in {Dec(-5, -2), Zero, Dec(5, -2), Dec(1, 0)}}

ReynoldsArgs ==
    {[NoArgs EXCEPT !.rho = rho, !.V = v, !.D = d, !.mu = mu, !.nu = nu] :
        rho \in {Dec(-998, 0), Zero, Dec(998, 0)},
        v \in {Zero, Dec(1, 0), Dec(-1, 0)},
        d \in {Zero, Dec(5, -2)},
        mu \in {None, Zero, Dec(1, -3)},
        nu \in {None, Zero, Dec(1, -6)}}

AnalyzeArgs ==
    {[NoArgs EXCEPT !.Q = q, !.V = v, !.D = d, !.L = Dec(10, 0), !.eps_rel = eps,
                    !.rho = rho, !.mu = mu, !.nu = nu, !.K_total = k] :
        q \in {None, Zero, Dec(1, -5), Dec(1, -2)},
        v \in {None, Zero, Dec(1, 0)},
        d \in {Dec(-5, -2), Zero, Dec(5, -2)},
        eps \in {DefaultEps, Dec(1, -1)},
        rho \in {None, Zero, Dec(998, 0)},
        mu \in {None, Dec(1, -3)},
        nu \in {None, Dec(1, -6)},
        k \in {Zero, Dec(2, 0)}}

\* the comparison of the modes: a flow rate Q0 and the arguments both calls share
ModeArgs ==
    {[NoArgs EXCEPT !.Q = q, !.D = d, !.L = Dec(10, 0), !.eps_rel = eps,
                    !.rho = rho, !.mu = Dec(1, -3), !.K_total = k] :
        q \in {Dec(-1, -2), Zero, Dec(1, -5), Dec(1, -3), Dec(1, -2), Dec(3, 0)},
        d \in {Zero, Dec(5, -2), Dec(1, 0)},
        eps \in {DefaultEps, Dec(1, -1)},
        rho \in {Dec(998, 0), Dec(12, -1)},
        k \in {Zero, Dec(2, 0)}}

\* cli.py: the namespace parse_args returns (--D and --L are required)
CliArgs ==
    {[NoArgs EXCEPT !.fluid = fl, !.mode = md, !.Q = q, !.V = v, !.D = d,
                    !.L = Dec(10, 0), !.eps_rel = DefaultEps, !.T = t,
                    !.P = Dec(101325, 0), !.K_total = Zero] :
        fl \in {"Water", "Air", "Unobtainium"},
        md \in {"Q", "V"},
        q \in {None, Zero, Dec(1, -2)},
        v \in {None, Dec(1, 0)},
        d \in {Zero, Dec(5, -2)},
        t \in {Dec(300, 0), Zero}}

\* streamlit_app.py: the sidebar's widgets (the mode's flow value is a number,
\* the other one None)
StreamlitArgs ==
    {[NoArgs EXCEPT !.fluid = fl, !.mode = md,
                    !.Q = IF md = "Q" THEN x ELSE None,
                    !.V = IF md = "Q" THEN None ELSE x, !.D = d,
                    !.L = Dec(10, 0), !.eps_rel = DefaultEps, !.T = t,
                    !.P = Dec(101325, 0), !.K_total = Zero] :
        fl \in {"Water", "Air", "Nitrogen"},
        md \in {"Q", "V"},
        x \in {Zero, Dec(1, -2), Dec(1, 0)},
        d \in {Zero, Dec(5, -2)},
        t \in {Dec(300, 0), Zero}}

Start(e, a, p) ==
    /\ entry = e
    /\ args = a
    /\ pc = p
    /\ result = None
    /\ calls = <<>>
    /\ call = None
    /\ loc = NoLocals
    /\ cb = None
    /\ f = None
    /\ i = 0
    /\ first = None
    /\ lookup = "pending"
    /\ props = None
    /\ analyzeCalls = 0
    /\ rendered = FALSE
    /\ exitCode = None
    /\ message = ""

Init ==
    \/ \E a \in FrictionFactorArgs : Start("friction_factor", a, "call")
    \/ \E a \in ColebrookArgs : Start("friction_factor_colebrook", a, "call")
    \/ \E a \in VelocityArgs : Start("velocity_from_flowrate", a, "call")
    \/ \E a \in ReynoldsArgs : Start("reynolds_number", a, "call")
    \/ \E a \in AnalyzeArgs : Start("analyze_pipe_flow", a, "call")
    \/ \E a \in ModeArgs : Start("mode_comparison", a, "call")
    \/ \E a \in CliArgs : Start("cli", a, "lookup")
    \/ \E a \in StreamlitArgs : Start("streamlit", a, "lookup")

(***************************************************************************)
(* Returns: where an outcome goes                                          *)
(***************************************************************************)
\* the process exits with status n
Exit(n) == [status |-> n]

\* analyze_pipe_flow returns or raises out: to the caller of the entry
\* point, to the mode comparison, or to the front end, where an exception
\* ends the run
AnalyzeReturns(out) ==
    IF entry = "mode_comparison" /\ first = None
    THEN /\ first' = out
         /\ pc' = "second"
         /\ UNCHANGED <<result, exitCode, message>>
    ELSE /\ result' = out
         /\ UNCHANGED first
         /\ IF entry = "cli"
            THEN IF out.kind = "ok"
                 THEN pc' = "print" /\ UNCHANGED <<exitCode, message>>
                 ELSE pc' = "done" /\ exitCode' = Exit(1) /\ message' = out.kind
            ELSE IF entry = "streamlit"
            THEN IF out.kind = "ok"
                 THEN pc' = "write" /\ UNCHANGED <<exitCode, message>>
                 ELSE pc' = "done" /\ message' = out.kind /\ UNCHANGED exitCode
            ELSE pc' = "done" /\ UNCHANGED <<exitCode, message>>

\* friction_factor returns or raises out: to the caller of the entry point,
\* or to line 121 of analyze_pipe_flow
FrictionReturns(out) ==
    IF entry \in {"friction_factor", "friction_factor_colebrook"}
    THEN /\ result' = out
         /\ pc' = "done"
         /\ UNCHANGED <<loc, first, exitCode, message>>
    ELSE IF out.kind = "ok"
    THEN /\ loc' = [loc EXCEPT !.f = out.val]
         /\ pc' = "heads"
         /\ UNCHANGED <<result, first, exitCode, message>>
    ELSE AnalyzeReturns(out) /\ UNCHANGED loc

\* friction_factor_colebrook is called with the arguments c: lines 55-57
EnterColebrook(c) ==
    IF NotPositive(c.Re)
    THEN FrictionReturns(Raise("ValueError")) /\ UNCHANGED <<cb, f, i>>
    ELSE /\ cb' = c
         /\ f' = c.f0
         /\ i' = 0
         /\ pc' = "loop"
         /\ UNCHANGED <<result, loc, first, exitCode, message>>

\* friction_factor(Re, eps_rel, D) with t the outcome of its lines 76-86:
\* it returns t, or makes the call of line 88
FrictionStep(t, Re, eps_rel, D) ==
    IF t.out.kind = "fallback"
    THEN /\ calls' = Append(t.calls, "colebrook")
         /\ EnterColebrook([Re |-> Re, eps_rel |-> eps_rel, D |-> D,
                            f0 |-> DefaultF0, max_iter |-> DefaultMaxIter,
                            tol |-> DefaultTol])
    ELSE /\ calls' = t.calls
         /\ FrictionReturns(t.out)
         /\ UNCHANGED <<cb, f, i>>

FrontEndVars == <<lookup, props, analyzeCalls, rendered>>

(***************************************************************************)
(* The functions of pipe_calc.py                                           *)
(***************************************************************************)
CallFrictionFactor ==
    /\ entry = "friction_factor" /\ pc = "call"
    /\ \E t \in {FrictionFactor(args.Re, args.eps_rel, args.D)} :
           FrictionStep(t, args.Re, args.eps_rel, args.D)
    /\ UNCHANGED <<entry, args, call, FrontEndVars>>

CallColebrook ==
    /\ entry = "friction_factor_colebrook" /\ pc = "call"
    /\ EnterColebrook([Re |-> args.Re, eps_rel |-> args.eps_rel, D |-> args.D,
                       f0 |-> args.f0, max_iter |-> args.max_iter,
                       tol |-> args.tol])
    /\ UNCHANGED <<entry, args, calls, call, FrontEndVars>>

\* one pass of the loop body (lines 58-67)
ColebrookIterate ==
    /\ pc = "loop"
    /\ i < cb.max_iter
    /\ i' = i + 1
    /\ \E b \in {ColebrookBody(f, cb.Re, cb.eps_rel, cb.D, cb.tol)} :
           IF b.kind = "continue"
           THEN /\ f' = b.val
                /\ UNCHANGED <<pc, result, loc, first, exitCode, message>>
           ELSE /\ FrictionReturns(IF b.kind = "return" THEN Ok(b.val) ELSE b)
                /\ UNCHANGED f
    /\ UNCHANGED <<entry, args, calls, call, cb, FrontEndVars>>

\* the loop ran out: return f  # best effort (line 68)
ColebrookExhausted ==
    /\ pc = "loop"
    /\ i >= cb.max_iter
    /\ FrictionReturns(Ok(f))
    /\ UNCHANGED <<entry, args, calls, call, cb, f, i, FrontEndVars>>

\* the entry point returns or raises
Finish(out) ==
    /\ result' = out
    /\ pc' = "done"
    /\ UNCHANGED <<entry, args, calls, call, loc, cb, f, i, first, FrontEndVars,
                   exitCode, message>>

CallVelocityFromFlowrate ==
    /\ entry = "velocity_from_flowrate" /\ pc = "call"
    /\ Finish(VelocityFromFlowrate(args.Q, args.D))

CallReynoldsNumber ==
    /\ entry = "reynolds_number" /\ pc = "call"
    /\ Finish(ReynoldsNumber(args.rho, args.V, args.D, args.mu, args.nu))

\* the keyword arguments of a call of analyze_pipe_flow
Keywords(Q, V, rho, mu, nu) ==
    [Q |-> Q, V |-> V, D |-> args.D, L |-> args.L, eps_rel |-> args.eps_rel,
     rho |-> rho, mu |-> mu, nu |-> nu, K_total |-> args.K_total]

\* analyze_pipe_flow is called with the arguments of the entry point
CallAnalyzePipeFlow ==
    /\ entry \in {"analyze_pipe_flow", "mode_comparison"} /\ pc = "call"
    /\ call' = Keywords(args.Q, args.V, args.rho, args.mu, args.nu)
    /\ pc' = "velocity"
    /\ UNCHANGED <<entry, args, result, calls, loc, cb, f, i, first, FrontEndVars,
                   exitCode, message>>

\* lines 114-117
AnalyzeVelocity ==
    /\ pc = "velocity"
    /\ \E v \in {InitialVelocity(call.Q, call.V, call.D)} :
           IF v.kind = "ok"
           THEN /\ loc' = [loc EXCEPT !.V = v.val]
                /\ pc' = "reynolds"
                /\ UNCHANGED <<result, first, exitCode, message>>
           ELSE AnalyzeReturns(v) /\ UNCHANGED loc
    /\ UNCHANGED <<entry, args, calls, call, cb, f, i, FrontEndVars>>

\* lines 118-120
AnalyzeReynolds ==
    /\ pc = "reynolds"
    /\ \E re \in {IF call.rho = None THEN Raise("ValueError")
                  ELSE ReynoldsNumber(call.rho, loc.V, call.D, call.mu, call.nu)} :
           IF re.kind = "ok"
           THEN /\ loc' = [loc EXCEPT !.Re = re.val]
                /\ pc' = "friction"
                /\ UNCHANGED <<result, first, exitCode, message>>
           ELSE AnalyzeReturns(re) /\ UNCHANGED loc
    /\ UNCHANGED <<entry, args, calls, call, cb, f, i, FrontEndVars>>

\* line 121
AnalyzeFriction ==
    /\ pc = "friction"
    /\ \E t \in {FrictionFactor(loc.Re, call.eps_rel, call.D)} :
           FrictionStep(t, loc.Re, call.eps_rel, call.D)
    /\ UNCHANGED <<entry, args, call, FrontEndVars>>

\* lines 122-134
AnalyzeHeads ==
    /\ pc = "heads"
    /\ \E h_f \in {HeadLossDarcy(loc.f, call.L, call.D, loc.V)} :
           IF h_f.kind = "ok"
           THEN AnalyzeReturns(Ok(AnalysisResult(call, loc.V, loc.Re, loc.f,
                    HeadsFrom[h_f.val, MinorLossHead(call.K_total, loc.V)])))
           ELSE AnalyzeReturns(h_f)
    /\ UNCHANGED <<entry, args, calls, call, loc, cb, f, i, FrontEndVars>>

\* the mode comparison's second call: V = velocity_from_flowrate(Q0, D) in
\* place of Q = Q0
SecondCall ==
    /\ entry = "mode_comparison" /\ pc = "second"
    /\ \E v \in {VelocityFromFlowrate(args.Q, args.D)} :
           IF v.kind = "ok"
           THEN /\ call' = Keywords(None, v.val, args.rho, args.mu, args.nu)
                /\ pc' = "velocity"
                /\ UNCHANGED result
           ELSE /\ result' = v
                /\ pc' = "done"
                /\ UNCHANGED call
    /\ loc' = NoLocals
    /\ calls' = <<>>
    /\ UNCHANGED <<entry, args, cb, f, i, first, FrontEndVars, exitCode, message>>

(***************************************************************************)
(* app/cli.py and app/streamlit_app.py                                     *)
(***************************************************************************)
\* the keyword arguments both front ends pass to analyze_pipe_flow: the flow
\* value of the mode, and rho and mu from the lookup
FrontEndCall ==
    Keywords(IF args.mode = "Q" THEN args.Q ELSE None,
             IF args.mode = "Q" THEN None ELSE args.V,
             props.rho, props.mu, None)

\* props = properties_PT(args.fluid, args.P, args.T); an exception ends main
CliLookup ==
    /\ entry = "cli" /\ pc = "lookup"
    /\ \E p \in {PropertiesPT(args.fluid, args.P, args.T)} :
           IF p.kind = "ok"
           THEN /\ props' = p.val
                /\ lookup' = "ok"
                /\ pc' = "analyze"
                /\ UNCHANGED <<exitCode, message>>
           ELSE /\ lookup' = "failed"
                /\ message' = p.kind
                /\ exitCode' = Exit(1)
                /\ pc' = "done"
                /\ UNCHANGED props
    /\ UNCHANGED <<entry, args, result, calls, call, loc, cb, f, i, first,
                   analyzeCalls, rendered>>

\* the mode's branch: p.error exits with status 2, else analyze_pipe_flow
\* is called
CliAnalyze ==
    /\ entry = "cli" /\ pc = "analyze"
    /\ IF (IF args.mode = "Q" THEN args.Q ELSE args.V) = None
       THEN /\ message' = "usage"
            /\ exitCode' = Exit(2)
            /\ pc' = "done"
            /\ UNCHANGED <<call, analyzeCalls>>
       ELSE /\ call' = FrontEndCall
            /\ analyzeCalls' = analyzeCalls + 1
            /\ pc' = "velocity"
            /\ UNCHANGED <<exitCode, message>>
    /\ UNCHANGED <<entry, args, result, calls, loc, cb, f, i, first, lookup,
                   props, rendered>>

\* the prints; main returns
CliPrint ==
    /\ entry = "cli" /\ pc = "print"
    /\ rendered' = TRUE
    /\ exitCode' = Exit(0)
    /\ pc' = "done"
    /\ UNCHANGED <<entry, args, result, calls, call, loc, cb, f, i, first,
                   lookup, props, analyzeCalls, message>>

\* a lookup that goes on with the properties of water when properties_PT fails
StreamlitLookupWithDefaults ==
    /\ entry = "streamlit" /\ pc = "lookup"
    /\ \E p \in {PropertiesPT(args.fluid, args.P, args.T)} :
           props' = IF p.kind = "ok" THEN p.val
                    ELSE PropertiesPT("Water", Dec(101325, 0), Dec(300, 0)).val
    /\ lookup' = "ok"
    /\ pc' = "analyze"
    /\ UNCHANGED <<entry, args, result, calls, call, loc, cb, f, i, first,
                   analyzeCalls, rendered, exitCode, message>>

\* try: props = properties_PT(fluid, P, T); except: st.error, st.stop()
StreamlitLookup ==
    /\ entry = "streamlit" /\ pc = "lookup"
    /\ \E p \in {PropertiesPT(args.fluid, args.P, args.T)} :
           IF p.kind = "ok"
           THEN /\ props' = p.val
                /\ lookup' = "ok"
                /\ pc' = "analyze"
                /\ UNCHANGED message
           ELSE /\ lookup' = "failed"
                /\ message' = "Fluid property lookup failed"
                /\ pc' = "stopped"
                /\ UNCHANGED props
    /\ UNCHANGED <<entry, args, result, calls, call, loc, cb, f, i, first,
                   analyzeCalls, rendered, exitCode>>

\* the mode's call of analyze_pipe_flow
StreamlitAnalyze ==
    /\ entry = "streamlit" /\ pc = "analyze"
    /\ call' = FrontEndCall
    /\ analyzeCalls' = analyzeCalls + 1
    /\ pc' = "velocity"
    /\ UNCHANGED <<entry, args, result, calls, loc, cb, f, i, first, lookup,
                   props, rendered, exitCode, message>>

\* st.write of the results and the Moody plot
StreamlitWrite ==
    /\ entry = "streamlit" /\ pc = "write"
    /\ rendered' = TRUE
    /\ pc' = "done"
    /\ UNCHANGED <<entry, args, result, calls, call, loc, cb, f, i, first,
                   lookup, props, analyzeCalls, exitCode, message>>

Next ==
    \/ CallFrictionFactor
    \/ CallColebrook
    \/ ColebrookIterate
    \/ ColebrookExhausted
    \/ CallVelocityFromFlowrate
    \/ CallReynoldsNumber
    \/ CallAnalyzePipeFlow
    \/ AnalyzeVelocity
    \/ AnalyzeReynolds
    \/ AnalyzeFriction
    \/ AnalyzeHeads
    \/ SecondCall
    \/ CliLookup
    \/ CliAnalyze
    \/ CliPrint
    \/ StreamlitLookup
    \/ StreamlitAnalyze
    \/ StreamlitWrite

Spec == Init /\ [][Next]_vars

(***************************************************************************)
(* Properties                                                              *)
(***************************************************************************)
Positive(x) == Lt(Zero, x)

\* the arguments of analyze_pipe_flow besides Q and V are valid
OthersValid ==
    /\ Positive(args.D)
    /\ args.rho # None /\ Positive(args.rho)
    /\ args.mu # None \/ args.nu # None

\* C1: a call of analyze_pipe_flow with both Q and V None, or with both Q
\* and V given and all other arguments valid, raises ValueError and returns
\* no result
C1_ExactlyOneOfQAndV ==
    ( /\ entry = "analyze_pipe_flow"
      /\ pc = "done"
      /\ \/ args.Q = None /\ args.V = None
         \/ args.Q # None /\ args.V # None /\ OthersValid )
    => result = Raise("ValueError")

\* C2: friction_factor raises ValueError for every Re <= 0 and evaluates no
\* correlation; so does analyze_pipe_flow once the Reynolds number it
\* computed is <= 0: it assigns no f and the ValueError is its outcome
C2_NonPositiveReRejected ==
    /\ ( /\ entry = "friction_factor"
         /\ pc = "done"
         /\ Le(args.Re, Zero) )
       => (result = Raise("ValueError") /\ calls = <<>>)
    /\ ( /\ entry \in {"analyze_pipe_flow", "cli", "streamlit"}
         /\ loc.Re # None
         /\ Le(loc.Re, Zero)
         /\ pc # "friction" )
       => (result = Raise("ValueError") /\ loc.f = None /\ calls = <<>>
           /\ pc = "done")

\* analyze_pipe_flow(V = 0, ...) has computed Re = 0 and raised ValueError
C2_Witness ==
    /\ entry = "analyze_pipe_flow"
    /\ pc = "done"
    /\ call.V = Zero
    /\ loc.Re = Zero
    /\ result = Raise("ValueError")

\* C3: for 0 < Re < 2300 friction_factor returns exactly 64/Re and evaluates
\* neither Swamee-Jain nor Colebrook; for Re >= 2300 (2300 included) it never
\* evaluates the laminar formula
C3_RegimeSelection ==
    entry = "friction_factor" =>
        /\ (pc = "done" /\ Positive(args.Re) /\ Lt(args.Re, Dec(2300, 0)))
           => (result = Ok(Div[Dec(64, 0), args.Re]) /\ calls = <<"laminar">>)
        /\ ~Lt(args.Re, Dec(2300, 0))
           => \A k \in 1 .. Len(calls) : calls[k] # "laminar"

\* friction_factor(2299.9999, ...) has returned the laminar value
C3_Witness ==
    /\ entry = "friction_factor"
    /\ pc = "done"
    /\ args.Re = Dec(22999999, -4)
    /\ calls = <<"laminar">>
    /\ result.kind = "ok"

\* the arguments of the call friction_factor_colebrook(Re, eps_rel, D)
DefaultCall(Re, eps_rel, D) ==
    [Re |-> Re, eps_rel |-> eps_rel, D |-> D, f0 |-> Dec(2, -2), max_iter |-> 50,
     tol |-> Dec(1, -6)]

\* the outcome of friction_factor_colebrook, from the state its loop was left
\* in: the local f at the cap, or what the last pass returned or raised
LoopOutcome ==
    IF result = Ok(f) /\ i = cb.max_iter THEN result
    ELSE ColebrookDecision[ColebrookProposal(f, cb.Re, cb.eps_rel, cb.D), f, cb.tol]

ReturnedBy(b) == IF b.kind = "return" THEN Ok(b.val) ELSE b

\* C4: for Re >= 2300 friction_factor returns the Swamee-Jain value f_sj only
\* if 0 < f_sj < 1; when f_sj <= 0, f_sj >= 1 or Swamee-Jain raised, it calls
\* friction_factor_colebrook(Re, eps_rel, D) with f0 = 0.02, max_iter = 50 and
\* tol = 1e-6 and its outcome is the outcome of that call
C4_SwameeJainAcceptance ==
    (entry = "friction_factor" /\ pc # "call" /\ ~Lt(args.Re, Dec(2300, 0))) =>
        \E f_sj \in {FrictionFactorSwameeJain(args.Re, args.eps_rel, args.D)} :
            IF f_sj.kind = "ok" /\ Positive(f_sj.val) /\ Lt(f_sj.val, Dec(1, 0))
            THEN /\ calls = <<"swamee_jain">>
                 /\ pc = "done"
                 /\ result = f_sj
            ELSE /\ calls = <<"swamee_jain", "colebrook">>
                 /\ cb = DefaultCall(args.Re, args.eps_rel, args.D)
                 /\ pc = "done" => result = ReturnedBy(LoopOutcome)

\* friction_factor(Re, 0.1, 0.05): Swamee-Jain gives a value >= 1, and the
\* value returned is Colebrook's
C4_Witness ==
    /\ entry = "friction_factor"
    /\ pc = "done"
    /\ args.eps_rel = Dec(1, -1)
    /\ args.D = Dec(5, -2)
    /\ calls = <<"swamee_jain", "colebrook">>
    /\ FrictionFactorSwameeJain(args.Re, args.eps_rel, args.D).kind = "ok"
    /\ ~Lt(FrictionFactorSwameeJain(args.Re, args.eps_rel, args.D).val, Dec(1, 0))
    /\ result.kind = "ok"
    /\ result # FrictionFactorSwameeJain(args.Re, args.eps_rel, args.D)

\* a step of friction_factor_colebrook, called directly or by friction_factor
C5_Step ==
    (entry \in {"friction_factor", "friction_factor_colebrook"} /\ pc = "loop") =>
        \E p \in {ColebrookProposal(f, cb.Re, cb.eps_rel, cb.D)} :
            /\ Positive(cb.Re)
            /\ i' <= cb.max_iter
            /\ pc' \in {"loop", "done"}
            /\ (pc' = "loop")
               => /\ i' = i + 1
                  /\ p.kind = "ok"
                  /\ ~Lt(FAbs(Sub[p.val, f]), cb.tol)
                  /\ f' = Mul[Dec(5, -1), Add[f, p.val]]
            /\ (pc' = "done" /\ i' = i + 1)
               => IF p.kind = "ok"
                  THEN Lt(FAbs(Sub[p.val, f]), cb.tol) /\ result' = Ok(p.val)
                  ELSE result' = p
            /\ (pc' = "done" /\ i' = i)
               => (i = cb.max_iter /\ result' = Ok(f))

\* C5: for Re > 0 friction_factor_colebrook makes at most max_iter passes of
\* its loop; a pass returns f_new when |f_new - f| < tol and else replaces f
\* by 0.5 * (f + f_new); at the cap the function returns the last f, and it
\* raises nothing for not having converged (an exception is one the
\* arithmetic of a pass raised)
C5_ColebrookLoop == [][C5_Step]_vars

\* friction_factor_colebrook has returned its local f at the cap, after
\* MaxIterTested passes that did not converge
C5_Witness ==
    /\ entry = "friction_factor_colebrook"
    /\ pc = "done"
    /\ args.max_iter = MaxIterTested
    /\ i = MaxIterTested
    /\ result = Ok(f)
    /\ f # args.f0
    /\ ColebrookBody(f, cb.Re, cb.eps_rel, cb.D, cb.tol).kind = "continue"

\* C6: analyze_pipe_flow(Q = Q0, ...) and analyze_pipe_flow(V =
\* velocity_from_flowrate(Q0, D), ...) with the same remaining arguments have
\* the same outcome: the same dict, field by field, or the same exception
C6_ModeEquivalence ==
    (entry = "mode_comparison" /\ pc = "done") => result = first

\* both calls have returned a dict, the second from V
C6_Witness ==
    /\ entry = "mode_comparison"
    /\ pc = "done"
    /\ call.Q = None
    /\ call.V = VelocityFromFlowrate(args.Q, args.D).val
    /\ first.kind = "ok"
    /\ result.kind = "ok"
    /\ result.val.V = call.V
    /\ Positive(result.val.deltaP)

\* C7: velocity_from_flowrate raises ValueError for every D <= 0 and any Q
C7_NonPositiveDiameterRejected ==
    ( /\ entry = "velocity_from_flowrate"
      /\ pc = "done"
      /\ Le(args.D, Zero) )
    => result = Raise("ValueError")

\* C8: reynolds_number raises ValueError whenever nu is not supplied and mu
\* is not supplied or rho <= 0; with nu supplied it returns V * D / nu
C8_ReynoldsValidation ==
    ( /\ entry = "reynolds_number"
      /\ pc = "done" )
    => IF args.nu = None
       THEN (args.mu = None \/ Le(args.rho, Zero)) => result = Raise("ValueError")
       ELSE result = Quot[Mul[args.V, args.D], args.nu]

\* C9 as stated: for Re >= 2300, eps_rel >= 0 and D > 0 a value returned by
\* friction_factor satisfies 0 < f < 1
C9_FrictionFactorBelowOne ==
    ( /\ entry = "friction_factor"
      /\ pc = "done"
      /\ ~Lt(args.Re, Dec(2300, 0))
      /\ ~Lt(args.eps_rel, Zero)
      /\ Positive(args.D)
      /\ result.kind = "ok" )
    => (Positive(result.val) /\ Lt(result.val, Dec(1, 0)))

\* C9, amended: for Re >= 2300, D > 0 and 0 <= eps_rel <= D friction_factor
\* returns the Swamee-Jain value, and 0 < f < 1; for eps_rel > D a value it
\* returns is positive (the Colebrook fallback's value may be 1 or more)
C9_FrictionFactorRange ==
    ( /\ entry = "friction_factor"
      /\ pc = "done"
      /\ ~Lt(args.Re, Dec(2300, 0))
      /\ ~Lt(args.eps_rel, Zero)
      /\ Positive(args.D) )
    => IF Le(args.eps_rel, args.D)
       THEN /\ calls = <<"swamee_jain">>
            /\ result.kind = "ok"
            /\ Positive(result.val)
            /\ Lt(result.val, Dec(1, 0))
       ELSE result.kind = "ok" => Positive(result.val)

\* friction_factor(1e5, 0.05, 0.05), eps_rel = D, has returned the
\* Swamee-Jain value
C9_Witness ==
    /\ entry = "friction_factor"
    /\ pc = "done"
    /\ args.Re = Dec(1, 5)
    /\ args.eps_rel = Dec(5, -2)
    /\ args.D = Dec(5, -2)
    /\ calls = <<"swamee_jain">>
    /\ result.kind = "ok"
    /\ Lt(Dec(5, -1), result.val)

\* C10: in both front ends the lookup comes before the analysis; when it
\* fails, analyze_pipe_flow is never called, no density or viscosity is
\* substituted, nothing is rendered, and the run has halted with the failure
\* reported (cli: exit status 1; Streamlit: error message, then stop)
C10_LookupFailureHalts ==
    entry \in {"cli", "streamlit"} =>
        /\ (analyzeCalls > 0 \/ call # None \/ rendered) => lookup = "ok"
        /\ lookup = "pending" <=> pc = "lookup"
        /\ (lookup = "ok") = (PropertiesPT(args.fluid, args.P, args.T).kind = "ok"
                              /\ pc # "lookup")
        /\ lookup = "ok"
           => props = PropertiesPT(args.fluid, args.P, args.T).val
        /\ call # None => (call.rho = props.rho /\ call.mu = props.mu)
        /\ lookup = "failed"
           => /\ analyzeCalls = 0
              /\ call = None
              /\ props = None
              /\ result = None
              /\ ~rendered
              /\ message # ""
              /\ IF entry = "cli"
                 THEN pc = "done" /\ exitCode = Exit(1)
                 ELSE pc = "stopped"

\* the Streamlit script has stopped on a failed lookup
C10_Witness ==
    /\ entry = "streamlit"
    /\ PropertiesPT(args.fluid, args.P, args.T).kind = "ValueError"
    /\ lookup = "failed"
    /\ pc = "stopped"
    /\ message = "Fluid property lookup failed"
    /\ analyzeCalls = 0

====
